---- MODULE Spec2Model ----
(***************************************************************************)
(* Model of CounterAnimator (src/src/counterAnimator.js).                  *)
(*                                                                         *)
(* Strings are sequences of one-character strings.  JavaScript numbers are *)
(* records: [k |-> "num", m |-> i] is the finite value i/1000 (decimal     *)
(* fixed point, thousandths), [k |-> "nan"] is NaN and [k |-> "inf"] is    *)
(* +/-Infinity (m is the sign).  Results of inexact operations (division,  *)
(* interpolation) are truncated toward zero to a thousandth; negative zero *)
(* is the value 0 (Number.prototype.toString prints both as "0").          *)
(***************************************************************************)
EXTENDS Integers, Sequences, FiniteSets, TLC

\* ------------------------------------------------------------------------
\* Characters and strings
\* ------------------------------------------------------------------------
DigitChars == <<"0", "1", "2", "3", "4", "5", "6", "7", "8", "9">>

IsDigit(c) == \E i \in 1..10 : DigitChars[i] = c

DigitVal(c) == (CHOOSE i \in 1..10 : DigitChars[i] = c) - 1

\* \w of a JavaScript regular expression, over the alphabet of the model
IsWordChar(c) == IsDigit(c) \/ c \in {"K", "z", "a", "N", "I", "n", "f", "i", "t", "y", "M", "B", "T", "_"}

IsSpace(c) == c = " "

Max(S) == CHOOSE x \in S : \A y \in S : y <= x

Min(S) == CHOOSE x \in S : \A y \in S : x <= y

\* the element of a one-element set; {F(x) : x \in {e}} evaluates e once
TheOne(S) == CHOOSE r \in S : TRUE

Abs(i) == IF i < 0 THEN -i ELSE i

\* integer division truncating toward zero (IEEE result cut to a thousandth)
TruncDiv(a, b) == IF a < 0 THEN -((-a) \div b) ELSE a \div b

RECURSIVE Pow10(_)
Pow10(n) == IF n = 0 THEN 1 ELSE 10 * Pow10(n - 1)

Scale == Pow10(3)

\* String.prototype.lastIndexOf for a one-character needle; 0 when absent
\* (JavaScript: -1), otherwise the 1-based position
LastIndexOf(s, c) ==
    LET I == {i \in DOMAIN s : s[i] = c}
    IN IF I = {} THEN 0 ELSE Max(I)

IndexOf(s, c) ==
    LET I == {i \in DOMAIN s : s[i] = c}
    IN IF I = {} THEN 0 ELSE Min(I)

\* (text.match(/c/g) || []).length
CountChar(s, c) == Cardinality({i \in DOMAIN s : s[i] = c})

\* text.replace(/c/g, '')
RemoveChar(s, c) == LET Keep(x) == x # c IN SelectSeq(s, Keep)

\* String.prototype.trim
RECURSIVE TrimLeft(_)
TrimLeft(s) == IF s # <<>> /\ IsSpace(Head(s)) THEN TrimLeft(Tail(s)) ELSE s

RECURSIVE TrimRight(_)
TrimRight(s) ==
    IF s # <<>> /\ IsSpace(s[Len(s)]) THEN TrimRight(SubSeq(s, 1, Len(s) - 1)) ELSE s

Trim(s) == TrimRight(TrimLeft(s))

\* length of the maximal run of digits of s that starts at position i
RECURSIVE DigitRun(_, _)
DigitRun(s, i) ==
    IF i <= Len(s) /\ IsDigit(s[i]) THEN 1 + DigitRun(s, i + 1) ELSE 0

\* '0'.repeat(n)
RECURSIVE Zeros(_)
Zeros(n) == IF n <= 0 THEN <<>> ELSE <<"0">> \o Zeros(n - 1)

\* String.prototype.padEnd(n, '0')
PadEnd(s, n) == s \o Zeros(n - Len(s))

\* ------------------------------------------------------------------------
\* Numbers
\* ------------------------------------------------------------------------
Num(m) == [k |-> "num", m |-> m]

NaN == [k |-> "nan", m |-> 0]

Infinity(sign) == [k |-> "inf", m |-> sign]

\* -0, which Num(0) does not denote
NegativeZero == [k |-> "negzero", m |-> 0]

\* a finite value beyond the thousandths of the model: sign * 15 * 10^e with
\* e >= MinHugeExponent, held as m = sign * e
Huge(sign, e) == [k |-> "huge", m |-> sign * e]

\* Number.prototype.toString and toFixed print a value of 10^21 or more in
\* exponential notation
ExponentialFrom == 21

IsFinite(v) == v.k \in {"num", "negzero", "huge"}

\* decimal digits of a natural number
RECURSIVE IntDigits(_)
IntDigits(n) ==
    IF n < 10 THEN <<DigitChars[n + 1]>>
    ELSE IntDigits(n \div 10) \o <<DigitChars[(n % 10) + 1]>>

\* the d digits of the natural number n < 10^d, zero padded on the left
RECURSIVE FixedDigits(_, _)
FixedDigits(n, d) ==
    IF d = 0 THEN <<>>
    ELSE FixedDigits(n \div 10, d - 1) \o <<DigitChars[(n % 10) + 1]>>

MinHugeExponent == Len(IntDigits(2147483647 \div Scale)) - 1

RECURSIVE StripTrailingZeros(_)
StripTrailingZeros(s) ==
    IF s # <<>> /\ s[Len(s)] = "0" THEN StripTrailingZeros(SubSeq(s, 1, Len(s) - 1))
    ELSE s

\* the digits of 15 * 10^e
HugeDigits(e) == <<"1", "5">> \o Zeros(e)

\* 1.5e+<e + 1>
HugeExponential(e) == <<"1", ".", "5", "e", "+">> \o IntDigits(e + 1)

\* a variant that prints the sign of -0
NumToStringSigned(v) ==
    CASE v.k = "nan" -> <<"N", "a", "N">>
      [] v.k = "inf" ->
            (IF v.m < 0 THEN <<"-">> ELSE <<>>) \o <<"I", "n", "f", "i", "n", "i", "t", "y">>
      [] v.k = "negzero" -> <<"-", "0">>
      [] v.k = "huge" ->
            (IF v.m < 0 THEN <<"-">> ELSE <<>>)
            \o (IF Abs(v.m) + 2 > ExponentialFrom THEN HugeExponential(Abs(v.m))
                ELSE HugeDigits(Abs(v.m)))
      [] OTHER ->
            LET a == Abs(v.m)
                frac == StripTrailingZeros(FixedDigits(a % Scale, 3))
            IN (IF v.m < 0 THEN <<"-">> ELSE <<>>)
               \o IntDigits(a \div Scale)
               \o (IF frac = <<>> THEN <<>> ELSE <<".">> \o frac)

\* Number.prototype.toString: shortest decimal form, exponential from 10^21,
\* "0" for -0
NumToString(v) ==
    CASE v.k = "nan" -> <<"N", "a", "N">>
      [] v.k = "negzero" -> <<"0">>
      [] v.k = "huge" ->
            (IF v.m < 0 THEN <<"-">> ELSE <<>>)
            \o (IF Abs(v.m) + 2 > ExponentialFrom THEN HugeExponential(Abs(v.m))
                ELSE HugeDigits(Abs(v.m)))
      [] v.k = "inf" ->
            (IF v.m < 0 THEN <<"-">> ELSE <<>>) \o <<"I", "n", "f", "i", "n", "i", "t", "y">>
      [] OTHER ->
            LET a == Abs(v.m)
                frac == StripTrailingZeros(FixedDigits(a % Scale, 3))
            IN (IF v.m < 0 THEN <<"-">> ELSE <<>>)
               \o IntDigits(a \div Scale)
               \o (IF frac = <<>> THEN <<>> ELSE <<".">> \o frac)

\* value of the digit string s read as a natural number
RECURSIVE DigitsValue(_)
DigitsValue(s) ==
    IF s = <<>> THEN 0
    ELSE 10 * DigitsValue(SubSeq(s, 1, Len(s) - 1)) + DigitVal(s[Len(s)])

\* thousandths denoted by the fraction digits s (digits after the third are
\* below the resolution of the model and are cut)
FracValue(s) == DigitsValue(SubSeq(PadEnd(s, 3), 1, 3))

InfinityWord == <<"I", "n", "f", "i", "n", "i", "t", "y">>

StartsWith(s, w) == Len(s) >= Len(w) /\ SubSeq(s, 1, Len(w)) = w

\* parseFloat: skips leading white space, reads the longest prefix that is a
\* decimal literal (sign, digits, optional fraction) or Infinity; NaN when
\* there is none.  (No text of the model holds an exponent part.)
ParseFloat(str) ==
    LET s == TrimLeft(str)
        hasSign == s # <<>> /\ s[1] \in {"-", "+"}
        neg == s # <<>> /\ s[1] = "-"
        b == IF hasSign THEN 2 ELSE 1
        body == SubSeq(s, b, Len(s))
        intLen == DigitRun(s, b)
        hasDot == b + intLen <= Len(s) /\ s[b + intLen] = "."
        fracLen == IF hasDot THEN DigitRun(s, b + intLen + 1) ELSE 0
        intPart == SubSeq(s, b, b + intLen - 1)
        fracPart == SubSeq(s, b + intLen + 1, b + intLen + fracLen)
        mag == DigitsValue(intPart) * Scale + FracValue(fracPart)
    IN IF StartsWith(body, InfinityWord) THEN Infinity(IF neg THEN -1 ELSE 1)
       ELSE IF intLen + fracLen = 0 THEN NaN
       ELSE IF neg /\ mag = 0 THEN NegativeZero
       ELSE Num(IF neg THEN -mag ELSE mag)

\* Math.round: nearest integer, ties toward +Infinity, -0 for a value in
\* [-0.5, 0)
MathRound(v) ==
    IF v.k # "num" THEN v
    ELSE IF v.m < 0 /\ (v.m + 500) \div Scale = 0 THEN NegativeZero
    ELSE Num(((v.m + 500) \div Scale) * Scale)

\* Math.abs
MathAbs(v) ==
    CASE v.k = "num" -> Num(Abs(v.m))
      [] v.k = "huge" -> Huge(1, Abs(v.m))
      [] v.k = "negzero" -> Num(0)
      [] v.k = "inf" -> Infinity(1)
      [] OTHER -> v

\* value >= bound for an integer bound (false for NaN)
GreaterEq(v, bound) ==
    CASE v.k = "num" -> v.m \div Scale >= bound
      [] v.k \in {"inf", "huge"} -> v.m > 0
      [] OTHER -> FALSE

\* value < 0 (false for NaN)
IsNegative(v) ==
    CASE v.k = "nan" -> FALSE
      [] OTHER -> v.m < 0

\* value / divisor for a positive integer divisor (1000 for a huge value)
Divide(v, divisor) ==
    CASE v.k = "num" -> Num(TruncDiv(v.m, divisor))
      [] v.k = "huge" ->
            LET sign == IF v.m < 0 THEN -1 ELSE 1
                e == Abs(v.m) - 3
            IN IF e >= MinHugeExponent THEN Huge(sign, e)
               ELSE Num(sign * 15 * Pow10(e) * Scale)
      [] OTHER -> v

\* Number.prototype.toFixed(d), d <= 3: rounds half away from zero, prints
\* exactly d fraction digits, keeps the sign of a negative value that rounds
\* to zero
ToFixed(v, d) ==
    IF v.k = "huge" /\ Abs(v.m) + 2 <= ExponentialFrom
    THEN NumToString(v) \o (IF d = 0 THEN <<>> ELSE <<".">> \o Zeros(d))
    ELSE IF v.k = "negzero" THEN <<"0">> \o (IF d = 0 THEN <<>> ELSE <<".">> \o Zeros(d))
    ELSE IF v.k # "num" THEN NumToString(v)
    ELSE LET unit == Pow10(3 - d)
             q == (Abs(v.m) + (unit \div 2)) \div unit
         IN (IF v.m < 0 THEN <<"-">> ELSE <<>>)
            \o IntDigits(q \div Pow10(d))
            \o (IF d = 0 THEN <<>> ELSE <<".">> \o FixedDigits(q % Pow10(d), d))

\* the huge value a text of toFixed denotes, if any
HugeOfText(s) ==
    LET neg == s # <<>> /\ s[1] = "-"
        body == IF neg THEN Tail(s) ELSE s
        dot == IndexOf(body, ".")
        whole == IF dot = 0 THEN body ELSE SubSeq(body, 1, dot - 1)
        sign == IF neg THEN -1 ELSE 1
        exponents == {e \in MinHugeExponent..(ExponentialFrom + 3) :
                        \/ body = HugeExponential(e)
                        \/ whole = HugeDigits(e) /\ RemoveChar(body, "0") = <<"1", "5">> \o
                                                     (IF dot = 0 THEN <<>> ELSE <<".">>)}
    IN {Huge(sign, e) : e \in exponents}

\* Number(string) for the strings toFixed produces
ToNumber(s) ==
    IF s = <<"N", "a", "N">> THEN NaN
    ELSE IF HugeOfText(s) # {} THEN TheOne(HugeOfText(s))
    ELSE ParseFloat(s)

\* ------------------------------------------------------------------------
\* Number formats
\* ------------------------------------------------------------------------
\* a property that is absent from an object literal reads as undefined
Undefined == <<"undefined">>

NoAbbreviations == [defined |-> FALSE, thousand |-> <<>>, million |-> <<>>,
                    billion |-> <<>>, trillion |-> <<>>]

DefaultAbbreviations == [defined |-> TRUE, thousand |-> <<"K">>, million |-> <<"M">>,
                         billion |-> <<"B">>, trillion |-> <<"T">>]

\* this.defaults.numberFormat
DefaultNumberFormat ==
    [thousandsSeparator |-> <<" ">>, decimalSeparator |-> <<",">>, decimals |-> 0,
     showDecimals |-> FALSE, abbreviate |-> FALSE, abbreviations |-> DefaultAbbreviations,
     inputDecimalSeparator |-> <<"auto">>, smartDetection |-> TRUE]

\* a literal of getPresetFormats(): five fields, no abbreviations, no
\* inputDecimalSeparator, no smartDetection
Preset(thousands, decimal, decimals, showDecimals, abbreviate) ==
    [thousandsSeparator |-> thousands, decimalSeparator |-> decimal, decimals |-> decimals,
     showDecimals |-> showDecimals, abbreviate |-> abbreviate, abbreviations |-> NoAbbreviations,
     inputDecimalSeparator |-> Undefined, smartDetection |-> FALSE]

getPresetFormats ==
    [ptao |-> Preset(<<" ">>, <<",">>, 0, FALSE, FALSE),
     currencyao |-> Preset(<<" ">>, <<",">>, 2, TRUE, FALSE),
     enus |-> Preset(<<",">>, <<".">>, 0, FALSE, FALSE),
     currencyus |-> Preset(<<",">>, <<".">>, 2, TRUE, FALSE),
     ptbr |-> Preset(<<".">>, <<",">>, 0, FALSE, FALSE),
     currencybr |-> Preset(<<".">>, <<",">>, 2, TRUE, FALSE),
     eu |-> Preset(<<".">>, <<",">>, 0, FALSE, FALSE),
     abbreviated |-> Preset(<<" ">>, <<",">>, 1, FALSE, TRUE),
     percentage |-> Preset(<<" ">>, <<",">>, 1, TRUE, FALSE)]

\* the numberFormat literal of the usage example "Uso com numeros abreviados":
\* abbreviation with its own abbreviations table
AbbreviatedWithTable ==
    [thousandsSeparator |-> <<" ">>, decimalSeparator |-> <<",">>, decimals |-> 1,
     showDecimals |-> FALSE, abbreviate |-> TRUE, abbreviations |-> DefaultAbbreviations,
     inputDecimalSeparator |-> Undefined, smartDetection |-> FALSE]

\* ------------------------------------------------------------------------
\* Rendering
\* ------------------------------------------------------------------------
\* the outcome of an evaluation that throws a TypeError
Throw == <<"TypeError">>

\* the regular expression /\B(?=(\d{3})+(?!\d))/g matches the gap after
\* position i when the characters on both sides are word characters and the
\* run of digits that follows has a length that is a positive multiple of 3
GroupGap(s, i) ==
    /\ i >= 1
    /\ i < Len(s)
    /\ IsWordChar(s[i])
    /\ DigitRun(s, i + 1) > 0
    /\ DigitRun(s, i + 1) % 3 = 0

RECURSIVE InsertAtGaps(_, _, _)
InsertAtGaps(s, separator, i) ==
    IF i > Len(s) THEN <<>>
    ELSE <<s[i]>> \o (IF GroupGap(s, i) THEN separator ELSE <<>>)
         \o InsertAtGaps(s, separator, i + 1)

addThousandsSeparator(numberString, separator) ==
    LET isNegative == numberString # <<>> /\ numberString[1] = "-"
        cleanNumber == IF isNegative THEN Tail(numberString) ELSE numberString
        formatted == InsertAtGaps(cleanNumber, separator, 1)
    IN IF isNegative THEN <<"-">> \o formatted ELSE formatted

\* a variant that takes Math.floor(value) + 1 for the rounded value
RoundForFormatStepped(value, format) ==
    IF value.k # "num" THEN value ELSE Num((value.m \div Scale + 1) * Scale)

\* rounded: Number(value.toFixed(decimals)) or Math.round(value)
RoundForFormat(value, format) ==
    IF format.decimals > 0 \/ format.showDecimals
    THEN ToNumber(ToFixed(value, format.decimals))
    ELSE MathRound(value)

\* lines 936-950 for rounded and str = rounded.toString()
AssembleNumber(rounded, str, format) ==
    LET dot == IndexOf(str, ".")
        \* rounded.toString().split('.')
        integerPart0 == IF dot = 0 THEN str ELSE SubSeq(str, 1, dot - 1)
        decimalPart == IF dot = 0 THEN <<>> ELSE SubSeq(str, dot + 1, Len(str))
        integerPart ==
            IF GreaterEq(MathAbs(rounded), 1000) /\ format.thousandsSeparator # <<>>
            THEN addThousandsSeparator(integerPart0, format.thousandsSeparator)
            ELSE integerPart0
        decimal == IF decimalPart # <<>> THEN decimalPart ELSE Zeros(format.decimals)
        paddedDecimal == PadEnd(decimal, format.decimals)
    IN IF format.showDecimals \/ (format.decimals > 0 /\ decimalPart # <<>>)
       THEN integerPart \o format.decimalSeparator \o paddedDecimal
       ELSE integerPart

formatCustomNumber(value, format) ==
    TheOne({TheOne({AssembleNumber(rounded, str, format) : str \in {NumToString(rounded)}}) :
               rounded \in {RoundForFormat(value, format)}})

\* {...format, showDecimals: true, decimals: 1}
AbbreviatedFormat(format) == [format EXCEPT !.showDecimals = TRUE, !.decimals = 1]

\* value / 1000^n
RECURSIVE DivideThousands(_, _)
DivideThousands(v, n) == IF n = 0 THEN v ELSE DivideThousands(Divide(v, 1000), n - 1)

\* the operand of the division in each tier of abbreviateNumber
AbbreviationDividend(value) == value

\* sign + formatCustomNumber(value / 1000^n, {...}) + format.abbreviations.<tier>
\* (reading a property of the undefined abbreviations table throws)
AbbreviateTier(value, format, n, tier) ==
    LET sign == IF IsNegative(value) THEN <<"-">> ELSE <<>>
        abbreviated == DivideThousands(AbbreviationDividend(value), n)
    IN IF ~format.abbreviations.defined THEN Throw
       ELSE sign \o formatCustomNumber(abbreviated, AbbreviatedFormat(format))
                 \o format.abbreviations[tier]

\* abs >= 1000^n
AtLeastThousands(abs, n) == GreaterEq(DivideThousands(abs, n - 1), 1000)

\* the magnitudes 10^12, 10^9, 10^6, 10^3 are written as powers of 1000
abbreviateNumber(value, format) ==
    LET abs == MathAbs(value)
    IN CASE AtLeastThousands(abs, 4) -> AbbreviateTier(value, format, 4, "trillion")
         [] AtLeastThousands(abs, 3) -> AbbreviateTier(value, format, 3, "billion")
         [] AtLeastThousands(abs, 2) -> AbbreviateTier(value, format, 2, "million")
         [] AtLeastThousands(abs, 1) -> AbbreviateTier(value, format, 1, "thousand")
         [] OTHER -> formatCustomNumber(value, format)

formatValue(value, config) ==
    LET format == config.numberFormat
    IN IF ~config.formatNumber THEN NumToString(MathRound(value))
       ELSE IF format.abbreviate THEN abbreviateNumber(value, format)
       ELSE formatCustomNumber(value, format)

\* ------------------------------------------------------------------------
\* Parsing
\* ------------------------------------------------------------------------
\* text.replace(/[^\d.,-]/g, '')
KeepNumeric(text) ==
    LET Keep(c) == IsDigit(c) \/ c \in {".", ",", "-"} IN SelectSeq(text, Keep)

\* a variant that always reads the first comma as the decimal point
parseWithCommaAsDecimal(text) ==
    ParseFloat([i \in DOMAIN text |->
                   IF i = IndexOf(text, ",") THEN "." ELSE text[i]])

\* Default: treat as decimal if <= 2 digits after comma (third test of the
\* single-comma branch)
parseWithCommaSeparator(text) ==
    LET commaCount == CountChar(text, ",")
        comma == IndexOf(text, ",")
        beforeComma == SubSeq(text, 1, comma - 1)
        afterComma == SubSeq(text, comma + 1, Len(text))
    IN IF commaCount = 1 /\ Len(afterComma) <= 2 /\ Len(beforeComma) <= 3
       THEN ParseFloat(beforeComma \o <<".">> \o afterComma)
       ELSE IF commaCount = 1 /\ Len(afterComma) = 3
       THEN ParseFloat(beforeComma \o afterComma)
       ELSE IF commaCount = 1 /\ Len(afterComma) <= 2
       THEN ParseFloat(beforeComma \o <<".">> \o afterComma)
       ELSE ParseFloat(RemoveChar(text, ","))

\* a variant that hands the text to parseFloat as it is
parseWithDotAsDecimal(text) == ParseFloat(text)

parseWithDotSeparator(text) ==
    LET dotCount == CountChar(text, ".")
        dot == IndexOf(text, ".")
        beforeDot == SubSeq(text, 1, dot - 1)
        afterDot == SubSeq(text, dot + 1, Len(text))
        lastDotIndex == LastIndexOf(text, ".")
        beforeLastDot == RemoveChar(SubSeq(text, 1, lastDotIndex - 1), ".")
        afterLastDot == SubSeq(text, lastDotIndex + 1, Len(text))
    IN IF dotCount = 1
       THEN IF Len(afterDot) <= 2 /\ Len(beforeDot) <= 3 THEN ParseFloat(text)
            ELSE IF Len(afterDot) = 3 THEN ParseFloat(beforeDot \o afterDot)
            ELSE ParseFloat(text)
       ELSE IF Len(afterLastDot) <= 2
       THEN ParseFloat(beforeLastDot \o <<".">> \o afterLastDot)
       ELSE ParseFloat(RemoveChar(text, "."))

\* a variant that takes the dot for the decimal point wherever it stands
parseWithMixedDotDecimal(text) == ParseFloat(RemoveChar(text, ","))

parseWithMixedSeparators(text) ==
    LET lastCommaIndex == LastIndexOf(text, ",")
        lastDotIndex == LastIndexOf(text, ".")
    IN IF lastCommaIndex > lastDotIndex
       THEN ParseFloat(RemoveChar(SubSeq(text, 1, lastCommaIndex - 1), ".")
                       \o <<".">> \o SubSeq(text, lastCommaIndex + 1, Len(text)))
       ELSE ParseFloat(RemoveChar(SubSeq(text, 1, lastDotIndex - 1), ",")
                       \o <<".">> \o SubSeq(text, lastDotIndex + 1, Len(text)))

\* parseFloat(cleanText) || 0
OrZero(v) == IF v.k \in {"nan", "negzero"} THEN Num(0) ELSE v

\* the value of smartNumberDetection for a cleaned text that holds a
\* separator
DetectWithSeparators(cleanText) ==
    LET commaCount == CountChar(cleanText, ",")
        dotCount == CountChar(cleanText, ".")
    IN IF commaCount > 0 /\ dotCount = 0 THEN parseWithCommaSeparator(cleanText)
       ELSE IF dotCount > 0 /\ commaCount = 0 THEN parseWithDotSeparator(cleanText)
       ELSE IF commaCount > 0 /\ dotCount > 0 THEN parseWithMixedSeparators(cleanText)
       ELSE Num(0)

smartNumberDetection(text) ==
    LET cleanText == KeepNumeric(text)
    IN IF CountChar(cleanText, ",") + CountChar(cleanText, ".") = 0
       THEN OrZero(ParseFloat(cleanText))
       ELSE DetectWithSeparators(cleanText)

\* decimalSeparator is ",", "." or undefined; lastIndexOf(undefined) looks for
\* the word "undefined", which no text of the model holds
parseNumberWithKnownFormat(text, decimalSeparator) ==
    LET thousandsSeparator == IF decimalSeparator = <<",">> THEN "." ELSE ","
        lastDecimalIndex ==
            IF Len(decimalSeparator) = 1 THEN LastIndexOf(text, decimalSeparator[1]) ELSE 0
        integerPart == RemoveChar(SubSeq(text, 1, lastDecimalIndex - 1), thousandsSeparator)
        decimalPart == SubSeq(text, lastDecimalIndex + 1, Len(text))
    IN IF lastDecimalIndex = 0 THEN ParseFloat(RemoveChar(text, thousandsSeparator))
       ELSE ParseFloat(integerPart \o <<".">> \o decimalPart)

\* cleanText.match(/-?\d+([.,]\d+)?/): the leftmost match, or <<>> for null
LegacyMatch(text) ==
    LET Starts == {i \in DOMAIN text :
                     \/ IsDigit(text[i])
                     \/ (text[i] = "-" /\ i < Len(text) /\ IsDigit(text[i + 1]))}
        b == Min(Starts)
        d == IF text[b] = "-" THEN b + 1 ELSE b
        intLen == DigitRun(text, d)
        sep == d + intLen
        fracLen == IF sep <= Len(text) /\ text[sep] \in {".", ","}
                   THEN DigitRun(text, sep + 1) ELSE 0
    IN IF Starts = {} THEN <<>>
       ELSE IF fracLen > 0 THEN SubSeq(text, b, sep + fracLen)
       ELSE SubSeq(text, b, sep - 1)

\* matches ? parseFloat(matches[0].replace(',', '.')) : 0
LegacyParse(text) ==
    LET m == LegacyMatch(text)
    IN IF m = <<>> THEN Num(0)
       ELSE ParseFloat([i \in DOMAIN m |-> IF m[i] = "," THEN "." ELSE m[i]])

\* extractNumber with this.config.numberFormat = format
extractNumber(text, format) ==
    LET cleanText == Trim(text)
    IN IF format.inputDecimalSeparator # <<"auto">>
       THEN parseNumberWithKnownFormat(cleanText, format.inputDecimalSeparator)
       ELSE IF format.smartDetection THEN smartNumberDetection(cleanText)
       ELSE LegacyParse(cleanText)

\* a variant that stops at the first digit only: /^([^\d]*)/
extractPrefixToDigit(text) ==
    LET Digits == {i \in DOMAIN text : IsDigit(text[i])}
    IN IF Digits = {} THEN text ELSE SubSeq(text, 1, Min(Digits) - 1)

\* text.match(/^([^\d-]*)/)[1]
RECURSIVE extractPrefix(_)
extractPrefix(text) ==
    IF text # <<>> /\ ~IsDigit(Head(text)) /\ Head(text) # "-"
    THEN <<Head(text)>> \o extractPrefix(Tail(text))
    ELSE <<>>

\* text.match(/([^\d]*)$/)[1]
RECURSIVE extractSuffix(_)
extractSuffix(text) ==
    IF text # <<>> /\ ~IsDigit(text[Len(text)])
    THEN extractSuffix(SubSeq(text, 1, Len(text) - 1)) \o <<text[Len(text)]>>
    ELSE <<>>

\* ------------------------------------------------------------------------
\* Easing functions (this.easingFunctions).  The argument t and the result
\* are thousandths; the clock of the model only produces the quarter points
\* t = 0, 250, 500, 750, 1000.  Where the source expression is not a
\* polynomial with exact decimal coefficients the operator lists the IEEE
\* double results of that expression at the quarter points, truncated toward
\* zero.
\* ------------------------------------------------------------------------
linear(t) == t

\* Math.pow(t, 4)
slow(t) ==
    CASE t = 0 -> 0 [] t = 250 -> 3 [] t = 500 -> 62 [] t = 750 -> 316 [] t = 1000 -> 1000

\* 1 - Math.pow(1 - t, 0.3)
fast(t) ==
    CASE t = 0 -> 0 [] t = 250 -> 82 [] t = 500 -> 187 [] t = 750 -> 340 [] t = 1000 -> 1000

\* n1 = 7.5625 = 121/16, d1 = 2.75 = 11/4; the four segments, exactly
bounce(t) ==
    IF 11 * t < 4000 THEN (121 * t * t) \div 16000
    ELSE IF 11 * t < 8000 THEN ((11 * t - 6000) * (11 * t - 6000) + 12000000) \div 16000
    ELSE IF 11 * t < 10000 THEN ((11 * t - 9000) * (11 * t - 9000) + 15000000) \div 16000
    ELSE ((11 * t - 10500) * (11 * t - 10500) + 15750000) \div 16000

\* 0 at 0, 1 at 1, else the decaying sine with c4 = 2*PI/3
elastic(t) ==
    CASE t = 0 -> 0 [] t = 250 -> 4 [] t = 500 -> 646 [] t = 750 -> 1015 [] t = 1000 -> 1000

\* Math.floor(t * 5) / 5
steps(t) == ((t * 5) \div Scale) * (Scale \div 5)

\* t < 0.5 ? 2 * t * t : 1 - Math.pow(-2 * t + 2, 2) / 2
smooth(t) ==
    IF t < 500 THEN (2 * t * t) \div Scale
    ELSE Scale - ((2 * Scale - 2 * t) * (2 * Scale - 2 * t)) \div (2 * Scale)

\* t < 0.8 ? 0 : (t - 0.8) / 0.2; in doubles (1 - 0.8) / 0.2 is
\* 0.9999999999999998, which truncates to 999
dramatic(t) ==
    IF t < 800 THEN 0 ELSE IF t = 1000 THEN 999 ELSE (t - 800) * 5

\* Math.sin(t * Math.PI * 2) at the quarter points
SinTurn(t) ==
    CASE t = 0 -> 0 [] t = 250 -> 1000 [] t = 500 -> 0 [] t = 750 -> -1000 [] t = 1000 -> 0

\* Math.sin(t * Math.PI * 2) * 0.1 + t
wave(t) == TruncDiv(SinTurn(t), 10) + t

\* the keys of this.easingFunctions
EasingNames == {"linear", "slow", "fast", "bounce", "elastic", "steps", "smooth",
                "dramatic", "wave"}

\* this.easingFunctions[name]: the name of the function, or "undefined"
EasingLookup(name) == IF name \in EasingNames THEN name ELSE "undefined"

\* this.easingFunctions[config.effect] || this.easingFunctions.easeOutCubic
SelectEasing(effect) ==
    IF EasingLookup(effect) # "undefined" THEN EasingLookup(effect)
    ELSE EasingLookup("easeOutCubic")

\* easingFunction(progress) for a function that is defined
ApplyEasing(name, t) ==
    CASE name = "linear" -> linear(t)
      [] name = "slow" -> slow(t)
      [] name = "fast" -> fast(t)
      [] name = "bounce" -> bounce(t)
      [] name = "elastic" -> elastic(t)
      [] name = "steps" -> steps(t)
      [] name = "smooth" -> smooth(t)
      [] name = "dramatic" -> dramatic(t)
      [] name = "wave" -> wave(t)

\* a * e / 1000 truncated toward zero, without leaving 32 bits
MulMilli(a, e) ==
    LET mag == (Abs(a) \div Scale) * Abs(e) + ((Abs(a) % Scale) * Abs(e)) \div Scale
    IN IF (a < 0) = (e < 0) THEN mag ELSE -mag

\* startValue + (targetValue - startValue) * easedProgress
Interpolate(startValue, targetValue, eased) ==
    IF startValue.k \in {"num", "negzero"} /\ targetValue.k \in {"num", "negzero"}
    THEN Num(startValue.m + MulMilli(targetValue.m - startValue.m, eased))
    ELSE NaN

\* ------------------------------------------------------------------------
\* The animator: state
\* ------------------------------------------------------------------------
\* bounds of the model
MaxTime == 4

MaxCalls == 1

\* the elements a document can hold, in document order
Elements == {"e1", "e2"}

Index(e) == IF e = "e1" THEN 0 ELSE 1

VARIABLES
    config,            \* this.config of the animator
    entry,             \* how the animator was made: "observer" (new, with
                       \* IntersectionObserver), "fallback" (new, without),
                       \* "animateCounters"
    html,              \* the document: textContent of each element that
                       \* matches config.selector when the animator is made
    dom,               \* each element: textContent, dataset, style
    animatedElements,  \* this.animatedElements
    observer,          \* this.observer: [exists, observing]
    timers,            \* pending setTimeout callbacks of animateAll, in order
    frames,            \* pending requestAnimationFrame callbacks (closures)
    now,               \* performance.now()
    onStartCalls,      \* per element: invocations of config.onStart
    onCompleteCalls,   \* per element: invocations of config.onComplete
    latest,            \* per element: id of the animation started last
    done,              \* per element: the animation started last has run
                       \* its terminal step
    ignored,           \* per element: some animateElement call returned at
                       \* the triggerOnce test
    resets,            \* calls of reset()
    calls,             \* calls of the caller after construction
    paused,            \* pause() has been called
    destroyed,         \* destroy() has been called, and neither animateElement
                       \* nor animateAll by the caller since
    updates,           \* per animation, by its id: whether config.onUpdate
                       \* has been invoked, the progress it was handed last,
                       \* and the invocations of config.onComplete
    rIn,               \* formatValue on its own: value and format drawn
    rOut,              \* formatValue on its own: result of formatValue, or <<>>
    pIn,               \* extractNumber on its own: text and format drawn
    pOut,              \* extractNumber on its own: result of extractNumber
    pAffixes           \* extractPrefix and extractSuffix of the same text

animVars == <<config, entry, html, dom, animatedElements, observer, timers, frames, now,
              onStartCalls, onCompleteCalls, latest, done, ignored, resets, calls,
              paused, destroyed, updates>>

harnessVars == <<rIn, rOut, pIn, pOut, pAffixes>>

vars == <<config, entry, html, dom, animatedElements, observer, timers, frames, now,
          onStartCalls, onCompleteCalls, latest, done, ignored, resets, calls,
          paused, destroyed, updates, rIn, rOut, pIn, pOut, pAffixes>>

\* ------------------------------------------------------------------------
\* Construction
\* ------------------------------------------------------------------------
\* document.querySelectorAll(config.selector)
Matching == DOMAIN html

\* the documents of the model hold the texts "1500", "Kz 2,5" and "a." (no
\* digit), in one or in two matching elements
Page1(text1) == [e \in {"e1"} |-> text1]

Page2(text1, text2) == [e \in Elements |-> IF e = "e1" THEN text1 ELSE text2]

HtmlTexts == {<<"1", "5", "0", "0">>, <<"K", "z", " ", "2", ",", "5">>, <<"a", ".">>}

OneElementPages == {Page1(text) : text \in HtmlTexts}

TwoElementPages == {Page2(<<"1", "5", "0", "0">>, <<"K", "z", " ", "2", ",", "5">>),
                    Page2(<<"a", ".">>, <<"1", "5", "0", "0">>)}

Entries == {"observer", "fallback", "animateCounters"}

Effects == EasingNames \cup {"easeOutCubic"}

Durations == {2, 4}

NumberFormats == {DefaultNumberFormat, getPresetFormats.abbreviated}

\* { ...this.defaults, ...options }: the options of the model set effect,
\* duration, triggerOnce and numberFormat (numberFormat replaces the default
\* object as a whole)
MakeConfig(effect, duration, triggerOnce, numberFormat, autoStart) ==
    [effect |-> effect, duration |-> duration, startValue |-> Num(0), delay |-> 0,
     formatNumber |-> TRUE, numberFormat |-> numberFormat, prefix |-> <<>>,
     suffix |-> <<>>, autoStart |-> autoStart, triggerOnce |-> triggerOnce]

\* the data-* attributes the document gives an element: <<>> when the
\* attribute is absent, <<value>> when it is written
NoAttributes ==
    [effect |-> <<>>, duration |-> <<>>, startValue |-> <<>>, prefix |-> <<>>,
     suffix |-> <<>>]

\* element.dataset.<name> of an attribute
Dataset(attribute) == IF attribute = <<>> THEN Undefined ELSE attribute[1]

\* an element nothing has been stored in: its dataset holds the attributes
\* of the document (attributes keeps them as they were written)
FreshElement(text, attributes) ==
    [textContent |-> text, originalText |-> Undefined, targetValue |-> Undefined,
     animated |-> "undefined", prefix |-> Dataset(attributes.prefix),
     suffix |-> Dataset(attributes.suffix), style |-> "", attributes |-> attributes]

\* the body of the forEach of setupElements
SetupElement(el, cfg) ==
    LET text == Trim(el.textContent)
        numericValue == extractNumber(text, cfg.numberFormat)
    IN [el EXCEPT !.originalText = text,
                  !.targetValue = NumToString(numericValue),
                  !.animated = "false",
                  !.prefix = IF cfg.prefix # <<>> THEN cfg.prefix ELSE extractPrefix(text),
                  !.suffix = IF cfg.suffix # <<>> THEN cfg.suffix ELSE extractSuffix(text)]

\* the elements after the constructor: init() runs setupElements only when
\* autoStart is set
ConstructedDom(texts, attributes, cfg) ==
    [e \in DOMAIN texts |->
        IF cfg.autoStart THEN SetupElement(FreshElement(texts[e], attributes), cfg)
        ELSE FreshElement(texts[e], attributes)]

\* animateAll: one setTimeout per element, due at index * delay
AnimateAllTimers(cfg, time) ==
    LET timer(e) == [element |-> e, due |-> time + Index(e) * cfg.delay]
    IN (IF "e1" \in Matching THEN <<timer("e1")>> ELSE <<>>)
       \o (IF "e2" \in Matching THEN <<timer("e2")>> ELSE <<>>)

\* nothing rendered yet, nothing parsed yet
NotRendered == <<>>

NotParsed == [k |-> "none", m |-> 0]

NoRender ==
    /\ rIn = [value |-> Num(0), config |-> MakeConfig("linear", 2, TRUE, DefaultNumberFormat, TRUE)]
    /\ rOut = NotRendered

NoParse ==
    /\ pIn = [text |-> <<>>, format |-> DefaultNumberFormat]
    /\ pOut = NotParsed
    /\ pAffixes = NotParsed

NoHarness == NoRender /\ NoParse

\* new CounterAnimator(options) and animateCounters(selector, options)
InitAnimator(entries, effects, durations, formats, pages, attributes) ==
    /\ entry \in entries
    /\ \E effect \in effects, duration \in durations, triggerOnce \in BOOLEAN,
          numberFormat \in formats :
          config = MakeConfig(effect, duration, triggerOnce, numberFormat,
                              entry # "animateCounters")
    /\ html \in pages
    /\ \E given \in attributes : dom = ConstructedDom(html, given, config)
    /\ animatedElements = {}
    /\ observer = [exists |-> entry = "observer",
                   observing |-> IF entry = "observer" THEN Matching ELSE {}]
    /\ timers = IF entry = "observer" THEN <<>> ELSE AnimateAllTimers(config, 0)
    /\ frames = {}
    /\ now = 0
    /\ onStartCalls = [e \in Matching |-> 0]
    /\ onCompleteCalls = [e \in Matching |-> 0]
    /\ latest = [e \in Matching |-> 0]
    /\ done = [e \in Matching |-> FALSE]
    /\ ignored = [e \in Matching |-> FALSE]
    /\ resets = 0
    /\ calls = 0
    /\ paused = FALSE
    /\ destroyed = FALSE
    /\ updates = <<>>

\* every configuration of the model
AutoInit ==
    /\ InitAnimator(Entries, Effects, Durations, NumberFormats, TwoElementPages,
                    {NoAttributes})
    /\ NoHarness

\* the configurations under which the calls of the caller are explored
Init ==
    /\ InitAnimator(Entries, {"steps", "easeOutCubic"}, {2}, {DefaultNumberFormat},
                    OneElementPages, {NoAttributes})
    /\ NoHarness

\* ------------------------------------------------------------------------
\* animateElement
\* ------------------------------------------------------------------------
\* variants of the test of line 314: without the test, and with the
\* triggerOnce flag read the wrong way round
AlreadyAnimatedUntested(e) == FALSE

AlreadyAnimatedInverted(e) == dom[e].animated = "true" /\ ~config.triggerOnce

\* element.dataset.animated === 'true' && this.config.triggerOnce
AlreadyAnimated(e) == dom[e].animated = "true" /\ config.triggerOnce

\* element.dataset.prefix || ''
OrEmpty(x) == IF x = Undefined THEN <<>> ELSE x

RECURSIVE SumOver(_, _)
SumOver(f, S) ==
    IF S = {} THEN 0
    ELSE LET x == CHOOSE y \in S : TRUE IN f[x] + SumOver(f, S \ {x})

\* animations started so far; the next one gets the next number
StartsSoFar == SumOver(onStartCalls, Matching)

\* a variant in which every animation reads the target of the first element
NewLoopSharedTarget(e) ==
    [id |-> StartsSoFar + 1,
     element |-> e,
     startTime |-> now,
     targetValue |-> ParseFloat(dom["e1"].targetValue),
     startValue |-> config.startValue,
     prefix |-> OrEmpty(dom[e].prefix),
     suffix |-> OrEmpty(dom[e].suffix),
     easingFunction |-> SelectEasing(config.effect),
     duration |-> config.duration]

\* the closure `animate` that animateElement hands to requestAnimationFrame
NewLoop(e) ==
    [id |-> StartsSoFar + 1,
     element |-> e,
     startTime |-> now,
     targetValue |-> ParseFloat(dom[e].targetValue),
     startValue |-> config.startValue,
     prefix |-> OrEmpty(dom[e].prefix),
     suffix |-> OrEmpty(dom[e].suffix),
     easingFunction |-> SelectEasing(config.effect),
     duration |-> config.duration]

\* animateElement(e): returns at once when AlreadyAnimated, otherwise marks
\* the element, calls onStart and requests the first frame.  An animation is
\* started only while it can end within MaxTime.
animateElement(e) ==
    IF AlreadyAnimated(e)
    THEN /\ ignored' = [ignored EXCEPT ![e] = TRUE]
         /\ UNCHANGED <<dom, animatedElements, frames, onStartCalls, latest, done,
                        updates>>
    ELSE /\ now + config.duration <= MaxTime
         /\ dom' = [dom EXCEPT ![e].animated = "true"]
         /\ animatedElements' = animatedElements \cup {e}
         /\ onStartCalls' = [onStartCalls EXCEPT ![e] = @ + 1]
         /\ frames' = frames \cup {NewLoop(e)}
         /\ latest' = [latest EXCEPT ![e] = StartsSoFar + 1]
         /\ done' = [done EXCEPT ![e] = FALSE]
         /\ updates' = Append(updates, [called |-> FALSE, progress |-> 0, completes |-> 0])
         /\ UNCHANGED ignored

\* the caller invokes animator.animateElement(e)
AnimateElementCall(e) ==
    /\ calls < MaxCalls
    /\ calls' = calls + 1
    /\ animateElement(e)
    /\ UNCHANGED <<config, entry, html, observer, timers, now, onCompleteCalls, resets,
                   paused>>
    /\ destroyed' = FALSE
    /\ UNCHANGED harnessVars

\* the IntersectionObserver callback for an entry of e that is intersecting;
\* it does nothing unless dataset.animated is 'false'
ObserverCallback(e) ==
    /\ observer.exists
    /\ e \in observer.observing
    /\ dom[e].animated = "false"
    /\ animateElement(e)
    /\ observer' = IF config.triggerOnce
                   THEN [observer EXCEPT !.observing = @ \ {e}]
                   ELSE observer
    /\ UNCHANGED <<config, entry, html, timers, now, onCompleteCalls, resets, calls,
                   paused, destroyed>>
    /\ UNCHANGED harnessVars

\* the caller invokes animateAll(): schedules animateElement for every element
AnimateAll ==
    /\ calls < MaxCalls
    /\ calls' = calls + 1
    /\ timers' = timers \o AnimateAllTimers(config, now)
    /\ UNCHANGED <<config, entry, html, dom, animatedElements, observer, frames, now,
                   onStartCalls, onCompleteCalls, latest, done, ignored, resets, paused>>
    /\ destroyed' = FALSE
    /\ UNCHANGED updates
    /\ UNCHANGED harnessVars

\* timers run in the order of their due time, then of their registration
TimerIsNext(i) ==
    /\ timers[i].due <= now
    /\ \A j \in DOMAIN timers :
          j # i => \/ timers[j].due > timers[i].due
                   \/ (timers[j].due = timers[i].due /\ j > i)

RemoveAt(q, i) == SubSeq(q, 1, i - 1) \o SubSeq(q, i + 1, Len(q))

\* a setTimeout callback of animateAll runs
TimerFire ==
    \E i \in DOMAIN timers :
        /\ TimerIsNext(i)
        /\ animateElement(timers[i].element)
        /\ timers' = RemoveAt(timers, i)
        /\ UNCHANGED <<config, entry, html, observer, now, onCompleteCalls, resets, calls,
                       paused, destroyed>>
        /\ UNCHANGED harnessVars

\* ------------------------------------------------------------------------
\* The frame callback `animate`
\* ------------------------------------------------------------------------
\* a progress of NaN (0 / 0), held as a number above every progress: as with
\* NaN, `progress < 1` is false of it
NaNProgress == Scale + 1

\* Math.min(elapsed / config.duration, 1), in thousandths: the quotient is
\* NaN or Infinity when the duration is 0 and is not positive when the
\* duration is negative
Progress(l, currentTime) ==
    LET elapsed == currentTime - l.startTime
    IN IF l.duration > 0 THEN Min({(elapsed * Scale) \div l.duration, Scale})
       ELSE IF l.duration < 0 THEN -((elapsed * Scale) \div (-l.duration))
       ELSE IF elapsed = 0 THEN NaNProgress
       ELSE Scale

\* startValue + (targetValue - startValue) * easingFunction(progress)
CurrentValue(l, t) ==
    Interpolate(l.startValue, l.targetValue, ApplyEasing(l.easingFunction, t))

\* the value the terminal branch renders
FinalValue(l, t) == l.targetValue

\* formatValue(currentValue, config) of line 337, or Throw when the call of
\* the undefined easingFunction (line 334) or formatValue throws
ShownValue(l, t) ==
    IF l.easingFunction = "undefined" THEN Throw
    ELSE IF t = NaNProgress THEN formatValue(NaN, config)
    ELSE formatValue(CurrentValue(l, t), config)

\* one run of the frame callback l with progress t, where shown is the
\* outcome of lines 334-337 and final that of line 350: whether it throws
\* before it writes, whether it reaches onComplete, and the text and style
\* it leaves.  The terminal branch runs when progress < 1 is false.
FrameResult(l, t, shown, final) ==
    LET completes == shown # Throw /\ t >= Scale /\ final # Throw
    IN [throws |-> shown = Throw,
        completes |-> completes,
        textContent |-> l.prefix \o (IF completes THEN final ELSE shown) \o l.suffix,
        style |-> IF completes THEN "" ELSE "effect"]

FrameOutcome(l, t) ==
    TheOne({FrameResult(l, t, shown, final) :
               shown \in {ShownValue(l, t)},
               final \in {IF t < Scale THEN <<>> ELSE formatValue(FinalValue(l, t), config)}})

\* the browser runs the pending frame callback l with the timestamp
\* currentTime; onUpdate is invoked after the text is written, and the
\* callback requests another frame only while progress < 1
FrameAt(l, currentTime) ==
    /\ l \in frames
    /\ \E t \in {Progress(l, currentTime)} :
       \E o \in {FrameOutcome(l, t)} :
          IF o.throws
          THEN /\ frames' = frames \ {l}
               /\ UNCHANGED <<dom, onCompleteCalls, done, updates>>
          ELSE /\ dom' = [dom EXCEPT ![l.element].textContent = o.textContent,
                                      ![l.element].style = o.style]
               /\ updates' = [updates EXCEPT ![l.id] =
                                 [called |-> TRUE, progress |-> t,
                                  completes |-> @.completes + (IF o.completes THEN 1 ELSE 0)]]
               /\ frames' = IF t < Scale THEN frames ELSE frames \ {l}
               /\ onCompleteCalls' = IF o.completes
                                     THEN [onCompleteCalls EXCEPT ![l.element] = @ + 1]
                                     ELSE onCompleteCalls
               /\ done' = IF o.completes /\ latest[l.element] = l.id
                          THEN [done EXCEPT ![l.element] = TRUE] ELSE done
    /\ UNCHANGED <<config, entry, html, animatedElements, observer, timers, now,
                   onStartCalls, latest, ignored, resets, calls, paused, destroyed>>
    /\ UNCHANGED harnessVars

\* a frame whose timestamp is performance.now()
Frame(l) == FrameAt(l, now)

\* the first frame of an animation that was started during a frame the
\* browser had already begun: requestAnimationFrame hands the callback the
\* time at which the frame began, which precedes the performance.now() that
\* animateElement read
EarlyFrame(l) ==
    /\ l \in frames
    /\ now = l.startTime
    /\ ~updates[l.id].called
    /\ FrameAt(l, l.startTime - 1)

\* performance.now() advances
Tick ==
    /\ now < MaxTime
    /\ now' = now + 1
    /\ UNCHANGED <<config, entry, html, dom, animatedElements, observer, timers, frames,
                   onStartCalls, onCompleteCalls, latest, done, ignored, resets, calls,
                   paused, destroyed, updates>>
    /\ UNCHANGED harnessVars

\* ------------------------------------------------------------------------
\* reset, pause, destroy
\* ------------------------------------------------------------------------
\* element.dataset.originalText || '0'
OriginalOrZero(el) ==
    IF el.originalText = Undefined \/ el.originalText = <<>> THEN <<"0">>
    ELSE el.originalText

ResetElement(el) ==
    [el EXCEPT !.textContent = OriginalOrZero(el), !.animated = "false", !.style = ""]

Reset ==
    /\ calls < MaxCalls
    /\ calls' = calls + 1
    /\ resets' = resets + 1
    /\ dom' = [e \in Matching |-> ResetElement(dom[e])]
    /\ animatedElements' = {}
    /\ observer' = IF observer.exists THEN [observer EXCEPT !.observing = Matching]
                   ELSE observer
    /\ UNCHANGED <<config, entry, html, timers, frames, now, onStartCalls,
                   onCompleteCalls, latest, done, ignored, paused, destroyed, updates>>
    /\ UNCHANGED harnessVars

\* pause() only writes a line to the console
Pause ==
    /\ calls < MaxCalls
    /\ calls' = calls + 1
    /\ paused' = TRUE
    /\ UNCHANGED <<destroyed, updates>>
    /\ UNCHANGED <<config, entry, html, dom, animatedElements, observer, timers, frames,
                   now, onStartCalls, onCompleteCalls, latest, done, ignored, resets>>
    /\ UNCHANGED harnessVars

Destroy ==
    /\ calls < MaxCalls
    /\ calls' = calls + 1
    /\ observer' = IF observer.exists THEN [observer EXCEPT !.observing = {}] ELSE observer
    /\ animatedElements' = {}
    /\ UNCHANGED <<config, entry, html, dom, timers, frames, now, onStartCalls,
                   onCompleteCalls, latest, done, ignored, resets, paused>>
    /\ destroyed' = TRUE
    /\ UNCHANGED updates
    /\ UNCHANGED harnessVars

\* what happens without the caller: observer, timers, frames, clock
AutoNext ==
    \/ \E e \in Matching : ObserverCallback(e)
    \/ TimerFire
    \/ \E l \in frames : Frame(l)
    \/ Tick

\* the calls of the caller
CallerNext ==
    \/ \E e \in Matching : AnimateElementCall(e)
    \/ AnimateAll
    \/ Reset
    \/ Pause
    \/ Destroy

Next == AutoNext \/ CallerNext

\* the animator and its caller
Spec == Init /\ [][Next]_vars

\* the animator left alone after construction, under every configuration
AutoSpec == AutoInit /\ [][AutoNext]_vars

\* options the constructor merges as they come: a duration that is negative
\* or zero, a thousands separator equal to the decimal separator
AnyDurations == {-2, 0, 2}

EqualSeparators == [DefaultNumberFormat EXCEPT !.thousandsSeparator = <<",">>]

OptionsInit ==
    /\ InitAnimator(Entries, {"linear", "steps"}, AnyDurations,
                    {DefaultNumberFormat, EqualSeparators}, OneElementPages,
                    {NoAttributes})
    /\ NoHarness

OptionsSpec == OptionsInit /\ [][AutoNext]_vars

\* documents whose elements carry data-* attributes (the same on every
\* element): each attribute is absent or written
ElementAttributes ==
    [effect : {<<>>, <<"steps">>},
     duration : {<<>>, <<4>>},
     startValue : {<<>>, <<Num(1000 * Scale)>>},
     prefix : {<<>>, <<<<"$">>>>},
     suffix : {<<>>, <<<<"%">>>>}]

AttributeInit ==
    /\ InitAnimator(Entries, {"linear"}, {2}, {DefaultNumberFormat}, OneElementPages,
                    ElementAttributes)
    /\ NoHarness

AttributeSpec == AttributeInit /\ [][AutoNext]_vars

\* the animator under a clock whose first frame timestamp may precede the
\* start time
TimestampInit ==
    /\ InitAnimator(Entries, {"linear", "steps"}, Durations, {DefaultNumberFormat},
                    OneElementPages, {NoAttributes})
    /\ NoHarness

TimestampNext ==
    \/ AutoNext
    \/ \E l \in frames : EarlyFrame(l)

TimestampSpec == TimestampInit /\ [][TimestampNext]_vars

\* ------------------------------------------------------------------------
\* formatValue and extractNumber on their own
\* ------------------------------------------------------------------------
\* an animator that is constructed and left alone
QuietAnimator ==
    /\ InitAnimator({"observer"}, {"linear"}, {2}, {DefaultNumberFormat},
                    {Page1(<<"1", "5", "0", "0">>)}, {NoAttributes})
    /\ config.triggerOnce

\* the values handed to formatValue, in thousandths: 0, 0.5, 999.949,
\* 1000, 1234.567, 1500, 999949, 999999, 10^6, 1500000, their negatives, NaN
\* and the infinities
RenderMagnitudes == {0, 1, 4, 400, 500, 999949, 1000000, 1234567, 1500000, 999949000,
                     999999000, 1000000000, 1500000000}

RenderValues ==
    {Num(m) : m \in RenderMagnitudes} \cup {Num(-m) : m \in RenderMagnitudes}
    \cup {NaN, Infinity(1), Infinity(-1), NegativeZero}
    \cup {Huge(sign, ExponentialFrom - 1) : sign \in {-1, 1}}

PresetNames == {"ptao", "currencyao", "enus", "currencyus", "ptbr", "currencybr",
                "eu", "abbreviated", "percentage"}

\* numberFormat options of the caller: every choice of separators, of up to
\* MaxDecimals decimals and of showDecimals (equal separators included)
MaxDecimals == 2

CustomFormats ==
    {[DefaultNumberFormat EXCEPT !.thousandsSeparator = thousands,
                                 !.decimalSeparator = decimal,
                                 !.decimals = decimals,
                                 !.showDecimals = showDecimals] :
        thousands \in {<<" ">>, <<",">>, <<".">>, <<>>},
        decimal \in {<<",">>, <<".">>},
        decimals \in 0..MaxDecimals,
        showDecimals \in BOOLEAN}

RenderFormats ==
    {DefaultNumberFormat, AbbreviatedWithTable} \cup {getPresetFormats[n] : n \in PresetNames}
    \cup CustomFormats

RenderConfigs ==
    {[MakeConfig("linear", 2, TRUE, format, TRUE) EXCEPT !.formatNumber = formatNumber] :
        format \in RenderFormats, formatNumber \in BOOLEAN}

RenderInit ==
    /\ QuietAnimator
    /\ rIn \in [value : RenderValues, config : RenderConfigs]
    /\ rOut = NotRendered
    /\ NoParse

\* rOut = this.formatValue(value, config)
Render ==
    /\ rOut = NotRendered
    /\ rOut' = formatValue(rIn.value, rIn.config)
    /\ UNCHANGED <<rIn, pIn, pOut, pAffixes>>
    /\ UNCHANGED animVars

RenderNext == Render

RenderSpec == RenderInit /\ [][RenderNext]_vars

\* the texts handed to extractNumber: every text of at most MaxTextLen
\* characters over TextChars, and the number texts below
MaxTextLen == 3

TextChars == {"1", "5", ".", ",", "-", "a", " "}

Texts == UNION {[1..n -> TextChars] : n \in 0..MaxTextLen}

\* number texts: up to three groups of at most MaxGroupLen digits joined by
\* ',' and '.', with at most MaxDigits digits (the integers that fit the
\* numbers of the model, thousandths in 32 bits), alone or between a prefix
\* and a suffix
MaxGroupLen == 3

MaxDigits == Len(IntDigits(2147483647 \div Scale)) - 1

Group(n) == SubSeq(<<"1", "2", "3", "4", "5", "6">>, 1, n)

GroupLens == 0..MaxGroupLen

Separators == {<<",">>, <<".">>}

GroupedTexts ==
    {Group(a) : a \in GroupLens}
    \cup {Group(a) \o s \o Group(b) : a \in GroupLens, b \in GroupLens, s \in Separators}
    \cup {Group(l[1]) \o s \o Group(l[2]) \o t \o Group(l[3]) :
             l \in {x \in GroupLens \X GroupLens \X GroupLens :
                       x[1] + x[2] + x[3] <= MaxDigits},
             s \in Separators, t \in Separators}

TextPrefixes == {<<>>, <<"K", "z", " ">>, <<"-">>}

TextSuffixes == {<<>>, <<" ", "+">>}

NumberTexts ==
    {p \o t \o x : p \in TextPrefixes, t \in GroupedTexts, x \in TextSuffixes}

ExampleTexts == {<<"3", ",", "5">>, <<"1", ",", "2", "3", "4">>,
                 <<"1", ".", "2", "3", "4", ",", "5", "6">>,
                 <<"1", ",", "2", "3", "4", ".", "5", "6">>,
                 <<"K", "z", " ", "1", ".", "2", "3", "4", " ", "+">>,
                 <<"1", ",", "0", "5", "0">>}

ParseTexts == Texts \cup NumberTexts \cup ExampleTexts

ParseFormats ==
    {DefaultNumberFormat,
     [DefaultNumberFormat EXCEPT !.smartDetection = FALSE],
     [DefaultNumberFormat EXCEPT !.inputDecimalSeparator = <<",">>],
     [DefaultNumberFormat EXCEPT !.inputDecimalSeparator = <<".">>],
     getPresetFormats.enus}

ParseInit ==
    /\ QuietAnimator
    /\ pIn \in [text : ParseTexts, format : ParseFormats]
    /\ pOut = NotParsed
    /\ pAffixes = NotParsed
    /\ NoRender

\* pOut = this.extractNumber(text) with this.config.numberFormat = format,
\* and the prefix and suffix setupElements takes from the same text
Parse ==
    /\ pOut = NotParsed
    /\ pOut' = extractNumber(pIn.text, pIn.format)
    /\ pAffixes' = [prefix |-> extractPrefix(pIn.text), suffix |-> extractSuffix(pIn.text)]
    /\ UNCHANGED <<rIn, rOut, pIn>>
    /\ UNCHANGED animVars

ParseNext == Parse

ParseSpec == ParseInit /\ [][ParseNext]_vars

\* ------------------------------------------------------------------------
\* Frames that keep being delivered
\* ------------------------------------------------------------------------
\* every effect and duration under the default numberFormat
FairInit ==
    /\ InitAnimator(Entries, Effects, Durations, {DefaultNumberFormat}, OneElementPages,
                    {NoAttributes})
    /\ NoHarness

\* the clock advances and every requested frame is delivered
FairSpec ==
    /\ FairInit
    /\ [][AutoNext]_vars
    /\ WF_vars(Tick)
    /\ WF_vars(\E l \in frames : Frame(l))

\* the phase of the animation of an element
Phase(e) ==
    IF dom[e].animated # "true" THEN "Idle"
    ELSE IF done[e] THEN "Completed"
    ELSE "Running"

\* a frame callback of e threw: started, neither pending nor completed
Died(e) ==
    onStartCalls[e] > onCompleteCalls[e] + Cardinality({l \in frames : l.element = e})

TypeOK ==
    /\ now \in 0..MaxTime
    /\ \A l \in frames : l.element \in Matching /\ l.startTime <= now
    /\ animatedElements \subseteq Matching

\* ------------------------------------------------------------------------
\* Properties
\* ------------------------------------------------------------------------
HasDigit(text) == \E i \in DOMAIN text : IsDigit(text[i])

\* automatic detection: inputDecimalSeparator 'auto' and smartDetection
AutoDetect(format) == format.inputDecimalSeparator = <<"auto">> /\ format.smartDetection

AllDigits(text) == \A i \in DOMAIN text : IsDigit(text[i])

\* the text without a leading '-', and the sign that '-' stands for
Unsigned(text) == IF text # <<>> /\ text[1] = "-" THEN Tail(text) ELSE text

SignOf(text) == IF text # <<>> /\ text[1] = "-" THEN -1 ELSE 1

\* the number with the given sign, integer digits and fraction digits
DecimalOf(sign, intDigits, fracDigits) ==
    Num(sign * (DigitsValue(intDigits) * Scale + FracValue(fracDigits)))

\* the text of pIn as automatic detection cleans it
CleanInput == KeepNumeric(Trim(pIn.text))

\* the digit string s in groups of three from the right
RECURSIVE GroupedDigits(_, _)
GroupedDigits(s, separator) ==
    IF Len(s) <= 3 THEN s
    ELSE GroupedDigits(SubSeq(s, 1, Len(s) - 3), separator) \o separator
         \o SubSeq(s, Len(s) - 2, Len(s))

\* thousandths m rounded to d decimals: halves away from zero when the
\* format states decimals, Math.round (halves upward) when it states none
RoundedMilli(m, format) ==
    LET unit == Pow10(3 - format.decimals)
    IN IF format.decimals > 0 \/ format.showDecimals
       THEN (IF m < 0 THEN -1 ELSE 1) * (((Abs(m) + unit \div 2) \div unit) * unit)
       ELSE ((m + 500) \div 1000) * 1000

\* the rendering C16 describes of a number with the given sign, integer
\* digits and thousandths (already rounded) under format
PlainText(negative, whole, fraction, format) ==
    LET digits == IF Len(whole) > 3 /\ format.thousandsSeparator # <<>>
                  THEN GroupedDigits(whole, format.thousandsSeparator)
                  ELSE whole
        padded == FixedDigits(fraction \div Pow10(3 - format.decimals), format.decimals)
    IN (IF negative THEN <<"-">> ELSE <<>>)
       \o digits
       \o (IF format.showDecimals \/ (format.decimals > 0 /\ fraction # 0)
           THEN format.decimalSeparator \o padded ELSE <<>>)

\* the rendering C16 describes of the finite value v under format
PlainRendering(v, format) ==
    IF v.k = "huge" THEN PlainText(v.m < 0, HugeDigits(Abs(v.m)), 0, format)
    ELSE LET r == RoundedMilli(v.m, format)
         IN PlainText(r < 0, IntDigits(Abs(r) \div 1000), Abs(r) % 1000, format)

\* formatValue was called with formatNumber set and a finite value
RenderedFinite ==
    rOut # NotRendered /\ rIn.config.formatNumber /\ IsFinite(rIn.value)

LoopsOf(e) == {l \in frames : l.element = e}

Rank(phase) ==
    CASE phase = "Idle" -> 0
      [] phase = "Running" -> 1
      [] phase = "Completed" -> 2

\* C1: under every configuration with a named easing curve, the frame step
\* whose elapsed time has reached the duration leaves the element showing
\* prefix + formatValue(targetValue) + suffix.  Fails: with the 'abbreviated'
\* preset and target 1500, formatValue throws and the text is not written.
C1_TerminalExactness ==
    [][\A l \in frames :
          (Frame(l) /\ Progress(l, now) >= Scale /\ l.easingFunction # "undefined")
          => dom'[l.element].textContent
               = l.prefix \o formatValue(l.targetValue, config) \o l.suffix]_vars

\* C2: an effect that names no easing curve still gets a callable easing
\* function, and its animation does not die in a frame.  Fails: the fallback
\* this.easingFunctions.easeOutCubic is undefined.
C2_FallbackCurveDefined ==
    config.effect \notin EasingNames
    => /\ \A l \in frames : l.easingFunction # "undefined"
       /\ \A e \in Matching : ~Died(e)

C4_StartedLeadsToCompleted ==
    \A e \in Elements :
        (e \in Matching /\ onStartCalls[e] > 0)
        ~> (e \in Matching /\ onCompleteCalls[e] > 0 /\ dom[e].style = "")

\* C5: with triggerOnce set, a start on an element whose animated flag is
\* 'true' calls no onStart, adds no frame loop and changes nothing of the
\* element; an element starts at most once more than reset() was called.
C5_SecondStartIsNoOp ==
    [][config.triggerOnce
       => \A e \in Matching :
             /\ onStartCalls'[e] <= resets' + 1
             /\ dom[e].animated = "true"
                => /\ onStartCalls'[e] = onStartCalls[e]
                   /\ LoopsOf(e)' \subseteq LoopsOf(e)
                   /\ (AnimateElementCall(e) \/ TimerFire \/ ObserverCallback(e))
                      => dom'[e] = dom[e]]_vars

\* C5, a state it speaks about: triggerOnce, the element was started once and a second start
\* on it returned at the test
C5_SecondStartAttempted ==
    /\ config.triggerOnce
    /\ \E e \in Matching :
          dom[e].animated = "true" /\ ignored[e] /\ onStartCalls[e] = 1

\* C6: every animation animateCounters starts counts to the number parsed
\* from the text of its element.  Fails: animateCounters constructs with
\* autoStart false, setupElements never runs and the target is NaN.
C6_TargetFromOwnText ==
    entry = "animateCounters"
    => \A l \in frames :
          l.targetValue = extractNumber(html[l.element], config.numberFormat)

\* C7: with the 'abbreviated' preset every value of magnitude in
\* [1000, 10^6) renders as |v|/1000 with one decimal digit after ',' and
\* the thousand suffix, and 1500 renders as "1,5K".  Fails: the preset has
\* no abbreviations table and formatValue throws.
C7_AbbreviatedPresetRenders ==
    LET format == getPresetFormats.abbreviated
        abs == MathAbs(rIn.value)
    IN (/\ rOut # NotRendered
        /\ rIn.config.formatNumber
        /\ rIn.config.numberFormat = format
        /\ IsFinite(rIn.value)
        /\ GreaterEq(abs, 1000) /\ ~GreaterEq(abs, 1000000))
       => /\ rOut = (IF IsNegative(rIn.value) THEN <<"-">> ELSE <<>>)
                    \o formatCustomNumber(Divide(abs, 1000), AbbreviatedFormat(format))
                    \o <<"K">>
          /\ rIn.value = Num(1500000) => rOut = <<"1", ",", "5", "K">>

\* C8: with abbreviate set and an abbreviations table, a value v <= -1000
\* renders as one '-' followed by the rendering of |v|.  Fails: the tier
\* divides the signed value, so -1500 renders as "--1,5K".
C8_SingleMinusSign ==
    (/\ rOut # NotRendered
     /\ rIn.config.formatNumber
     /\ rIn.config.numberFormat = AbbreviatedWithTable
     /\ IsFinite(rIn.value)
     /\ rIn.value.m <= -1000 * Scale)
    => rOut = <<"-">> \o abbreviateNumber(MathAbs(rIn.value), AbbreviatedWithTable)

\* C9: NaN and the infinities render as "0" under every format.  Fails:
\* they render as "NaN", "Infinity" and the like.
C9_NonFiniteRendersZero ==
    (rOut # NotRendered /\ ~IsFinite(rIn.value)) => rOut = <<"0">>

\* C10: with automatic detection extractNumber returns 0 for every text
\* that holds no digit.  Fails: for "." and "," it returns NaN.
C10_NoDigitGivesZero ==
    (/\ pOut # NotParsed
     /\ pIn.format.inputDecimalSeparator = <<"auto">>
     /\ ~HasDigit(pIn.text))
    => pOut = Num(0)

\* C11: under automatic detection, for a cleaned text of digits and commas
\* (after an optional sign): one comma with 1-2 digits after it and at most
\* 3 before it is the decimal point; one comma with exactly 3 digits after
\* it is dropped; with two or more commas every comma is dropped.
C11_CommaHeuristic ==
    LET body == Unsigned(CleanInput)
        sign == SignOf(CleanInput)
        commas == CountChar(body, ",")
        comma == IndexOf(body, ",")
        before == SubSeq(body, 1, comma - 1)
        after == SubSeq(body, comma + 1, Len(body))
    IN (/\ pOut # NotParsed
        /\ AutoDetect(pIn.format)
        /\ commas > 0
        /\ HasDigit(body)
        /\ AllDigits(RemoveChar(body, ",")))
       => /\ (commas = 1 /\ Len(after) \in 1..2 /\ Len(before) <= 3)
             => pOut = DecimalOf(sign, before, after)
          /\ (commas = 1 /\ Len(after) = 3)
             => pOut = DecimalOf(sign, before \o after, <<>>)
          /\ commas >= 2 => pOut = DecimalOf(sign, RemoveChar(body, ","), <<>>)

\* C11, states it speaks about: "1,234" parsed as 1234, "3,5" as 3.5 and a
\* text with two commas
C11_GroupingCommaParsed ==
    /\ AutoDetect(pIn.format)
    /\ pIn.text = <<"1", ",", "2", "3", "4">>
    /\ pOut = Num(1234000)

\* C12: under automatic detection, for a cleaned text of digits and dots
\* (after an optional sign): one dot with exactly 3 digits after it is
\* dropped; one dot with 1-2 digits after it is the decimal point; with
\* several dots, the dots before the last are dropped and the last is the
\* decimal point when 1-2 digits follow it, and every dot is dropped when 3
\* or more digits follow it.
C12_DotHeuristic ==
    LET body == Unsigned(CleanInput)
        sign == SignOf(CleanInput)
        dots == CountChar(body, ".")
        last == LastIndexOf(body, ".")
        before == RemoveChar(SubSeq(body, 1, last - 1), ".")
        after == SubSeq(body, last + 1, Len(body))
    IN (/\ pOut # NotParsed
        /\ AutoDetect(pIn.format)
        /\ dots > 0
        /\ HasDigit(body)
        /\ AllDigits(RemoveChar(body, ".")))
       => /\ (dots = 1 /\ Len(after) = 3) => pOut = DecimalOf(sign, before \o after, <<>>)
          /\ (dots = 1 /\ Len(after) \in 1..2) => pOut = DecimalOf(sign, before, after)
          /\ (dots >= 2 /\ Len(after) \in 1..2) => pOut = DecimalOf(sign, before, after)
          /\ (dots >= 2 /\ Len(after) >= 3) => pOut = DecimalOf(sign, before \o after, <<>>)

\* C12, a state it speaks about: "1.123.12", whose last dot is the decimal
\* point, parsed as 1123.12
C12_LastDotDecimalParsed ==
    /\ AutoDetect(pIn.format)
    /\ pIn.text = <<"1", ".", "1", "2", "3", ".", "1", "2">>
    /\ pOut = Num(1123120)

\* C13: under automatic detection, for a cleaned text of digits, ',' and
\* '.' (after an optional sign) that holds both characters, the one that
\* occurs last, when it occurs once, is the decimal point, every occurrence
\* of the other one is dropped, and the value is that of the digits before
\* and after the decimal point.
C13_MixedHeuristic ==
    LET body == Unsigned(CleanInput)
        sign == SignOf(CleanInput)
        lastComma == LastIndexOf(body, ",")
        lastDot == LastIndexOf(body, ".")
        decimal == IF lastComma > lastDot THEN "," ELSE "."
        other == IF lastComma > lastDot THEN "." ELSE ","
        last == LastIndexOf(body, decimal)
        before == RemoveChar(SubSeq(body, 1, last - 1), other)
        after == SubSeq(body, last + 1, Len(body))
    IN (/\ pOut # NotParsed
        /\ AutoDetect(pIn.format)
        /\ lastComma > 0
        /\ lastDot > 0
        /\ CountChar(body, decimal) = 1
        /\ HasDigit(body)
        /\ AllDigits(RemoveChar(RemoveChar(body, ","), ".")))
       => pOut = DecimalOf(sign, before, after)

\* C13, a state it speaks about: "1.234,56" parsed as 1234.56
C13_CommaLastParsed ==
    /\ AutoDetect(pIn.format)
    /\ pIn.text = <<"1", ".", "2", "3", "4", ",", "5", "6">>
    /\ pOut = Num(1234560)

\* C14: with inputDecimalSeparator ',' or '.', for a text whose cleaned form
\* is digits and separators (after an optional sign) with at most one
\* designated separator, extractNumber drops the other separator and returns
\* the number split at the designated one, or the integer of the digits when
\* the designated separator is absent, whatever prefix and suffix surround
\* the number.  Fails: the text is not cleaned, and "Kz 1.234,56" with ','
\* gives parseFloat("Kz 1234.56") = NaN.
C14_KnownSeparator ==
    LET body == Unsigned(CleanInput)
        sign == SignOf(CleanInput)
        decimal == pIn.format.inputDecimalSeparator[1]
        other == IF decimal = "," THEN "." ELSE ","
        last == LastIndexOf(body, decimal)
        before == RemoveChar(SubSeq(body, 1, last - 1), other)
        after == RemoveChar(SubSeq(body, last + 1, Len(body)), other)
    IN (/\ pOut # NotParsed
        /\ pIn.format.inputDecimalSeparator \in {<<",">>, <<".">>}
        /\ CountChar(body, decimal) <= 1
        /\ HasDigit(body)
        /\ AllDigits(RemoveChar(RemoveChar(body, ","), ".")))
       => pOut = IF last = 0 THEN DecimalOf(sign, RemoveChar(body, other), <<>>)
                 ELSE DecimalOf(sign, before, after)

\* C15: for every text, extractPrefix returns the longest leading run of
\* characters that are neither digits nor '-', and extractSuffix the longest
\* trailing run of characters that are not digits.
C15_PrefixAndSuffix ==
    LET text == pIn.text
        prefix == pAffixes.prefix
        suffix == pAffixes.suffix
        IsPrefixChar(c) == ~IsDigit(c) /\ c # "-"
        p == Len(prefix)
        q == Len(suffix)
    IN pAffixes # NotParsed
       => /\ p <= Len(text)
          /\ prefix = SubSeq(text, 1, p)
          /\ \A i \in 1..p : IsPrefixChar(text[i])
          /\ p < Len(text) => ~IsPrefixChar(text[p + 1])
          /\ q <= Len(text)
          /\ suffix = SubSeq(text, Len(text) - q + 1, Len(text))
          /\ \A i \in (Len(text) - q + 1)..Len(text) : ~IsDigit(text[i])
          /\ q < Len(text) => IsDigit(text[Len(text) - q])

\* C15, a state it speaks about: "Kz 1.234 +" gives "Kz " and " +"
C15_KzExampleSplit ==
    /\ pIn.text = <<"K", "z", " ", "1", ".", "2", "3", "4", " ", "+">>
    /\ pAffixes = [prefix |-> <<"K", "z", " ">>, suffix |-> <<" ", "+">>]

\* C16: for every finite value and every format that does not abbreviate,
\* the rendering is the value rounded to format.decimals places, its integer
\* part grouped by threes with the thousands separator when |rounded| >= 1000
\* and a separator is set, the sign in front, and the decimal separator with
\* the fraction padded to format.decimals digits appended only when
\* showDecimals is set or a fraction survives the rounding with decimals > 0.
C16_PlainRendering ==
    (RenderedFinite /\ ~rIn.config.numberFormat.abbreviate)
    => rOut = PlainRendering(rIn.value, rIn.config.numberFormat)

\* C16 on the values below 10^21
C16_PlainRenderingBelowExponential ==
    (RenderedFinite /\ ~rIn.config.numberFormat.abbreviate /\ rIn.value.k = "num")
    => rOut = PlainRendering(rIn.value, rIn.config.numberFormat)

\* the value handed to formatValue is -0 or is negative and rounds to zero
\* at the precision of the rendering
RoundsToNegativeZero ==
    /\ rOut # NotRendered
    /\ \/ rIn.value = NegativeZero
       \/ /\ rIn.value.k = "num"
          /\ rIn.value.m < 0
          /\ IF rIn.config.formatNumber
             THEN RoundedMilli(rIn.value.m, rIn.config.numberFormat) = 0
             ELSE (rIn.value.m + 500) \div 1000 = 0

\* C17: -0 and every negative value that rounds to zero at the format's
\* precision render without a minus sign under every format (plain, forced
\* decimals, abbreviated): the output starts with the single digit "0".
C17_NoMinusZero ==
    RoundsToNegativeZero
    => /\ Head(rOut) = "0"
       /\ \A i \in DOMAIN rOut : rOut[i] # "-"
       /\ Len(rOut) > 1 => ~IsDigit(rOut[2])

\* C17, a state it speaks about: -0.004 with two forced decimals renders
\* as "0.00"
C17_SmallNegativeRendered ==
    /\ RoundsToNegativeZero
    /\ rIn.value = Num(-4)
    /\ rIn.config.numberFormat.showDecimals
    /\ rIn.config.numberFormat.decimals = 2
    /\ rIn.config.numberFormat.decimalSeparator = <<".">>
    /\ rOut = <<"0", ".", "0", "0">>

\* C18: for every format f and every finite value v, rendering the value
\* already rounded to f's precision gives the identical string:
\* formatCustomNumber(round_f(v), f) = formatCustomNumber(v, f).
C18_RoundTripStable ==
    (RenderedFinite /\ ~rIn.config.numberFormat.abbreviate)
    => formatCustomNumber(RoundForFormat(rIn.value, rIn.config.numberFormat),
                          rIn.config.numberFormat) = rOut

\* C18, a state it speaks about: -1234.567 is rendered with two decimals,
\* and so is the -1234.57 it rounds to
C18_UnroundedValueRendered ==
    /\ RenderedFinite
    /\ ~rIn.config.numberFormat.abbreviate
    /\ rIn.value = Num(-1234567)
    /\ rIn.config.numberFormat.decimals = 2
    /\ rIn.config.numberFormat.thousandsSeparator = <<" ">>
    /\ RoundForFormat(rIn.value, rIn.config.numberFormat) = Num(-1234570)
    /\ rOut = <<"-", "1", " ", "2", "3", "4", ",", "5", "7">>

\* a frame of the animation of e has written its text
FrameRendered(e) == done[e] \/ dom[e].style = "effect"

\* C19: a configuration whose numberFormat has a non-empty thousands
\* separator equal to its decimal separator fails at construction, so no
\* rendering runs with two identical separators.  Fails: the constructor
\* merges the options unchecked and the frames render with them.
C19_SeparatorsDisjoint ==
    \A e \in Matching :
        FrameRendered(e)
        => \/ config.numberFormat.thousandsSeparator = <<>>
           \/ config.numberFormat.thousandsSeparator # config.numberFormat.decimalSeparator

\* C20: a duration that is zero or negative is rejected at construction: no
\* frame loop is ever started with duration <= 0.  Fails: neither the
\* constructor nor animateElement looks at the duration.
C20_NoLoopWithoutDuration ==
    \A l \in frames : l.duration > 0

C23_DestroyStopsTriggering ==
    [][(destroyed /\ destroyed')
       => (onStartCalls' = onStartCalls /\ animatedElements' = {})]_vars

\* C24: the data attributes of an element (data-effect, data-duration,
\* data-start-value, data-prefix, data-suffix) override the settings of the
\* animator: the animation of the element uses each value the element
\* carries.  Fails: animateElement reads effect, duration and startValue
\* from the config only, and setupElements overwrites prefix and suffix.
C24_ElementAttributesOverride ==
    \A l \in frames :
        LET given == dom[l.element].attributes
        IN /\ given.effect # <<>> => l.easingFunction = SelectEasing(given.effect[1])
           /\ given.duration # <<>> => l.duration = given.duration[1]
           /\ given.startValue # <<>> => l.startValue = given.startValue[1]
           /\ given.prefix # <<>> => l.prefix = given.prefix[1]
           /\ given.suffix # <<>> => l.suffix = given.suffix[1]

\* C25: in every frame step the computed progress lies in [0, 1], for every
\* frame timestamp, a first timestamp earlier than the recorded start time
\* included.  Fails: Math.min clamps at 1 only, an earlier timestamp gives a
\* negative progress.
C25_ProgressClamped ==
    \A id \in DOMAIN updates :
        updates[id].called => updates[id].progress \in 0..Scale

\* the text the completed animation of e leaves, from the dataset of e alone
OwnFinalText(e) ==
    OrEmpty(dom[e].prefix) \o formatValue(ParseFloat(dom[e].targetValue), config)
    \o OrEmpty(dom[e].suffix)

\* C26: no animation shares mutable state with another: a frame step of the
\* animation of one element leaves every other element as it was, and with
\* the frames of several animations interleaved in any order the text a
\* completed animation leaves is the one its own prefix, target and suffix
\* give, as if the element had been animated alone.
C26_AnimationsIndependent ==
    /\ [](\A e \in Matching : done[e] => dom[e].textContent = OwnFinalText(e))
    /\ [][\A l \in frames :
             Frame(l) => \A e \in Matching \ {l.element} : dom'[e] = dom[e]]_vars

\* C26, a state it speaks about: the animations of the two elements are both
\* under way, each has had a frame since the clock advanced, and they show
\* different texts
C26_TwoAnimationsInterleaved ==
    \E l1 \in frames, l2 \in frames :
        /\ l1.element = "e1"
        /\ l2.element = "e2"
        /\ updates[l1.id].called /\ updates[l1.id].progress \in 1..(Scale - 1)
        /\ updates[l2.id].called /\ updates[l2.id].progress \in 1..(Scale - 1)
        /\ dom["e1"].textContent # dom["e2"].textContent

\* the order of the callbacks of every animation, without the promise that
\* onComplete comes: an animation has an entry only once onStart was called
\* (one per call of onStart), onUpdate is handed a progress that never
\* decreases, onComplete is invoked at most once and only in a frame whose
\* onUpdate was handed progress 1, and nothing follows onComplete
C27_CallbacksInOrder ==
    /\ [](/\ Len(updates) = StartsSoFar
          /\ \A id \in DOMAIN updates :
                /\ updates[id].completes <= 1
                /\ ~updates[id].called => updates[id].completes = 0
                /\ updates[id].completes = 1 => updates[id].progress >= Scale)
    /\ [][\A id \in DOMAIN updates :
             /\ updates[id].called
                => (updates'[id].called /\ updates'[id].progress >= updates[id].progress)
             /\ updates[id].completes = 1 => updates'[id] = updates[id]]_vars

\* C27: for each animation of an element onStart is invoked exactly once and
\* before any onUpdate, onUpdate is invoked once per frame with a progress
\* that never decreases, onComplete is invoked exactly once, after the last
\* onUpdate, and no onUpdate follows it.  Fails: with the default effect the
\* first frame throws before onUpdate, and onComplete is never invoked.
C27_CallbackOrder ==
    /\ C27_CallbacksInOrder
    /\ \A id \in 1..2 :
          (Len(updates) >= id) ~> (Len(updates) >= id /\ updates[id].completes = 1)

\* C28: at most one frame loop is active per element at any time, for any
\* sequence of animateElement, animateAll, observer callbacks and reset, with
\* triggerOnce set or not.  Fails: a start while a loop of the element is
\* pending (triggerOnce false, or after reset()) adds a second loop.
C28_OneLoopPerElement ==
    \A l1 \in frames, l2 \in frames : l1.element = l2.element => l1 = l2

\* C29: automatic detection is used whenever the caller gave no decimal
\* separator hint: under a numberFormat that is a preset of getPresetFormats()
\* every text parses to the value it has under the default numberFormat.
\* Fails: a preset has no inputDecimalSeparator, undefined !== 'auto' holds,
\* and the text goes to parseNumberWithKnownFormat(text, undefined).
C29_PresetParsesAsDefault ==
    (pOut # NotParsed /\ pIn.format \in {getPresetFormats[n] : n \in PresetNames})
    => pOut = extractNumber(pIn.text, DefaultNumberFormat)

\* the numeral of a text: from its first digit or '-' to its last digit
Numeral(text) ==
    LET starts == {i \in DOMAIN text : IsDigit(text[i]) \/ text[i] = "-"}
        ends == {i \in DOMAIN text : IsDigit(text[i])}
    IN IF ends = {} THEN <<>>
       ELSE SubSeq(text, CHOOSE i \in starts : \A j \in starts : i <= j,
                         CHOOSE i \in ends : \A j \in ends : j <= i)

\* text is prefix + numeral + suffix: the numeral is made of digits, '.' and
\* ',' after an optional leading '-', and what precedes and follows it holds
\* no digit and no '-'
HasNumeralForm(text) ==
    LET numeral == Numeral(text)
    IN /\ numeral # <<>>
       /\ \A i \in DOMAIN numeral :
             \/ IsDigit(numeral[i])
             \/ numeral[i] \in {".", ","} /\ i > 1
             \/ numeral[i] = "-" /\ i = 1

\* C30: for every text prefix + numeral + suffix whose prefix and suffix hold
\* no digit and no '-', the value of extractNumber under automatic detection
\* depends on the numeral only: '.' and ',' in the prefix or in the suffix do
\* not change it.  Fails: the cleaning keeps every '.' and ',' of the text,
\* so ".5" (as in "No. 5") is read as 0.5.
C30_AffixSeparatorsIgnored ==
    (pOut # NotParsed /\ AutoDetect(pIn.format) /\ HasNumeralForm(Trim(pIn.text)))
    => pOut = extractNumber(Numeral(Trim(pIn.text)), pIn.format)

====
